---- MODULE Spec2Model ----
(***************************************************************************)
(* A model of pokedex_app.py: the Pokemon class (constructor and           *)
(* detalhes_busca), the memoized catalog lister pegar_lista_pokemon and    *)
(* the Streamlit page script that uses them.                               *)
(*                                                                         *)
(* Text is a sequence of one-character strings, so that str.title() and    *)
(* str.replace() are computed character by character.  A JSON value (the   *)
(* result of response.json()) is a tagged record: null, int, str, list or  *)
(* dict; a dict's value is a function from its keys.  Python's None is the *)
(* JSON null.                                                              *)
(***************************************************************************)
EXTENDS Integers, Sequences, FiniteSets, TLC

(***************************************************************************)
(* Characters and str methods                                              *)
(***************************************************************************)
Lowers == <<"a","b","c","d","e","f","g","h","i","j","k","l","m",
            "n","o","p","q","r","s","t","u","v","w","x","y","z">>

Uppers == <<"A","B","C","D","E","F","G","H","I","J","K","L","M",
            "N","O","P","Q","R","S","T","U","V","W","X","Y","Z">>

LowerSet == {Lowers[i] : i \in DOMAIN Lowers}

UpperSet == {Uppers[i] : i \in DOMAIN Uppers}

UpperOf == [c \in LowerSet |-> Uppers[CHOOSE i \in DOMAIN Lowers : Lowers[i] = c]]

LowerOf == [c \in UpperSet |-> Lowers[CHOOSE i \in DOMAIN Uppers : Uppers[i] = c]]

IsLower(c) == c \in LowerSet

IsUpper(c) == c \in UpperSet

\* A cased character: one str.title() may change.
IsCased(c) == IsLower(c) \/ IsUpper(c)

ToUpper(c) == IF IsLower(c) THEN UpperOf[c] ELSE c

ToLower(c) == IF IsUpper(c) THEN LowerOf[c] ELSE c

\* str.title() as CPython computes it: one pass that carries
\* previous_is_cased; a cased character is upper-cased when the character
\* before it is not cased (or there is none) and lower-cased otherwise.
RECURSIVE TitleFrom(_, _, _)
TitleFrom(s, i, previous_is_cased) ==
  IF i > Len(s) THEN <<>>
  ELSE LET c == s[i]
           d == IF IsLower(c) /\ ~previous_is_cased THEN ToUpper(c)
                ELSE IF IsUpper(c) /\ previous_is_cased THEN ToLower(c)
                ELSE c
       IN <<d>> \o TitleFrom(s, i + 1, IsCased(c))

\* The mutant of Title: a new word starts only after white space.
RECURSIVE TitleWordsFrom(_, _, _)
TitleWordsFrom(s, i, in_word) ==
  IF i > Len(s) THEN <<>>
  ELSE LET c == s[i]
           d == IF in_word THEN ToLower(c) ELSE ToUpper(c)
       IN <<d>> \o TitleWordsFrom(s, i + 1, c # " ")

TitleWhitespaceOnly(s) == TitleWordsFrom(s, 1, FALSE)

Title(s) == TitleFrom(s, 1, FALSE)

\* s.replace('-', ' ')
ReplaceHyphen(s) == [i \in DOMAIN s |-> IF s[i] = "-" THEN " " ELSE s[i]]

(***************************************************************************)
(* JSON values and the Python operations the code applies to them.  An     *)
(* operation yields [exc, val]: exc is "none" or the exception's class.    *)
(***************************************************************************)
Null == [t |-> "null"]

JInt(n) == [t |-> "int", v |-> n]

JStr(s) == [t |-> "str", v |-> s]

JList(q) == [t |-> "list", v |-> q]

JObj(f) == [t |-> "dict", v |-> f]

EmptyDict == JObj(<<>>)

EmptyList == JList(<<>>)

Ok(x) == [exc |-> "none", val |-> x]

Raised(e) == [exc |-> e, val |-> Null]

\* x.get(k, default): a method of dict only.
Get(x, k, default) ==
  IF x.t = "dict"
  THEN Ok(IF k \in DOMAIN x.v THEN x.v[k] ELSE default)
  ELSE Raised("AttributeError")

\* x[k] with a str key k.
Subscript(x, k) ==
  IF x.t = "dict"
  THEN IF k \in DOMAIN x.v THEN Ok(x.v[k]) ELSE Raised("KeyError")
  ELSE Raised("TypeError")

\* The elements a for loop draws from x.  Iterating a dict gives its keys
\* and iterating a str its characters: both are str values.
Iterate(x) ==
  IF x.t = "list" THEN [exc |-> "none", items |-> x.v]
  ELSE IF x.t = "str"
  THEN [exc |-> "none", items |-> [i \in DOMAIN x.v |-> JStr(<<x.v[i]>>)]]
  ELSE IF x.t = "dict"
  THEN [exc |-> "none",
        items |-> [i \in 1..Cardinality(DOMAIN x.v) |-> JStr(<<"k">>)]]
  ELSE [exc |-> "TypeError", items |-> <<>>]

\* x.title(): a method of str only.
TitleOf(x) ==
  IF x.t = "str" THEN Ok(JStr(Title(x.v))) ELSE Raised("AttributeError")

\* x.replace('-', ' '): a method of str only.
ReplaceOf(x) ==
  IF x.t = "str" THEN Ok(JStr(ReplaceHyphen(x.v))) ELSE Raised("AttributeError")

\* x / 10 for a non-negative int: the float with that whole part and that
\* tenths digit.
TrueDiv10(x) ==
  IF x.t = "int"
  THEN Ok([t |-> "float", whole |-> x.v \div 10, tenth |-> x.v % 10])
  ELSE Raised("TypeError")

\* bool(x), as `if x:` takes it.
Truthy(x) ==
  CASE x.t = "null" -> FALSE
    [] x.t = "int" -> x.v # 0
    [] x.t = "str" -> Len(x.v) > 0
    [] x.t = "list" -> Len(x.v) > 0
    [] x.t = "dict" -> DOMAIN x.v # {}
    [] OTHER -> TRUE

\* a[k1][k2] of an exception-or-value a.
Then(a, k) == IF a.exc # "none" THEN a ELSE Subscript(a.val, k)

(***************************************************************************)
(* HTTP.  A response is what requests.get meets: net = FALSE is a          *)
(* transport failure (requests.get raises), code is the status code,       *)
(* json tells whether the body parses as JSON and body is the parsed body. *)
(* requests.exceptions.JSONDecodeError is a RequestException (requests     *)
(* 2.27 and later), as ConnectionError and HTTPError are.                  *)
(***************************************************************************)
Response(code, body) == [net |-> TRUE, code |-> code, json |-> TRUE, body |-> body]

TextResponse(code) == [net |-> TRUE, code |-> code, json |-> FALSE, body |-> Null]

ConnectionError == [net |-> FALSE, code |-> 0, json |-> FALSE, body |-> Null]

\* The mutant of FetchJson: raise_for_status() left out.
FetchJsonUnchecked(resp, get_line) ==
  IF ~resp.net
  THEN [exc |-> "RequestException", line |-> get_line, data |-> Null]
  ELSE IF ~resp.json
  THEN [exc |-> "RequestException", line |-> get_line + 2, data |-> Null]
  ELSE [exc |-> "none", line |-> 0, data |-> resp.body]

\* response = requests.get(url); response.raise_for_status();
\* data = response.json(), the first of the three lines being get_line.
FetchJson(resp, get_line) ==
  IF ~resp.net
  THEN [exc |-> "RequestException", line |-> get_line, data |-> Null]
  ELSE IF resp.code >= 400 /\ resp.code < 600
  THEN [exc |-> "RequestException", line |-> get_line + 1, data |-> Null]
  ELSE IF ~resp.json
  THEN [exc |-> "RequestException", line |-> get_line + 2, data |-> Null]
  ELSE [exc |-> "none", line |-> 0, data |-> resp.body]

(***************************************************************************)
(* class Pokemon                                                           *)
(***************************************************************************)
NoPokemon == [none |-> TRUE]

\* Pokemon.__init__: nome.title() raises when nome is no str.
Pokemon(nome, url) ==
  LET r == TitleOf(nome)
  IN IF r.exc # "none"
     THEN [exc |-> r.exc, line |-> 10, self |-> NoPokemon]
     ELSE [exc |-> "none", line |-> 0,
           self |-> [nome |-> r.val, url |-> url, id |-> Null,
                     tipos |-> <<>>, habilidades |-> <<>>,
                     altura |-> Null, peso |-> Null,
                     imagem_url |-> Null, stats |-> <<>>]]

\* The mutant of DictSet: an overwritten key moves to the end, its position
\* that of the last write.
DictSetMoveToEnd(d, k, v) ==
  Append(SelectSeq(d, LAMBDA e : e.k # k), [k |-> k, v |-> v])

\* d[k] = v on a dict, kept as the sequence of its items in iteration
\* order: an existing key keeps its position, a new key goes last.
DictSet(d, k, v) ==
  IF \E i \in DOMAIN d : d[i].k = k
  THEN [i \in DOMAIN d |-> IF d[i].k = k THEN [k |-> k, v |-> v] ELSE d[i]]
  ELSE Append(d, [k |-> k, v |-> v])

\* sprites.other.official-artwork.front_default by chained .get, lines 34-37.
ImagemUrl(data) ==
  LET sprites_data == Get(data, "sprites", EmptyDict)
      other_data == IF sprites_data.exc # "none" THEN sprites_data
                    ELSE Get(sprites_data.val, "other", EmptyDict)
      artwork_data == IF other_data.exc # "none" THEN other_data
                      ELSE Get(other_data.val, "official-artwork", EmptyDict)
      front == IF artwork_data.exc # "none" THEN artwork_data
               ELSE Get(artwork_data.val, "front_default", Null)
  IN [exc |-> front.exc, val |-> front.val,
      line |-> IF sprites_data.exc # "none" THEN 34
               ELSE IF other_data.exc # "none" THEN 35
               ELSE IF artwork_data.exc # "none" THEN 36
               ELSE IF front.exc # "none" THEN 37 ELSE 0]

\* [e[inner]['name'].title() for e in data.get(key, [])], lines 40 and 41:
\* the first element that raises ends the comprehension, and nothing is
\* assigned.
NameList(data, key, inner) ==
  LET src == Get(data, key, EmptyList)
      it == IF src.exc # "none" THEN [exc |-> src.exc, items |-> <<>>]
            ELSE Iterate(src.val)
      each == [i \in DOMAIN it.items |->
                 LET n == Then(Subscript(it.items[i], inner), "name")
                 IN IF n.exc # "none" THEN n ELSE TitleOf(n.val)]
      bad == {i \in DOMAIN each : each[i].exc # "none"}
  IN IF it.exc # "none" THEN [exc |-> it.exc, val |-> <<>>]
     ELSE IF bad # {}
     THEN [exc |-> each[CHOOSE i \in bad : \A j \in bad : i <= j].exc,
           val |-> <<>>]
     ELSE [exc |-> "none", val |-> [i \in DOMAIN each |-> each[i].val]]

\* The loop of lines 44-47 from element i on, stats being self.stats: an
\* element that raises ends it with the entries inserted so far.
RECURSIVE StatsLoop(_, _, _)
StatsLoop(items, i, stats) ==
  IF i > Len(items) THEN [exc |-> "none", line |-> 0, stats |-> stats]
  ELSE LET stat == items[i]
           raw == Then(Subscript(stat, "stat"), "name")
           spaced == IF raw.exc # "none" THEN raw ELSE ReplaceOf(raw.val)
           stat_name == IF spaced.exc # "none" THEN spaced
                        ELSE TitleOf(spaced.val)
           base_stat == Subscript(stat, "base_stat")
       IN IF stat_name.exc # "none"
          THEN [exc |-> stat_name.exc, line |-> 45, stats |-> stats]
          ELSE IF base_stat.exc # "none"
          THEN [exc |-> base_stat.exc, line |-> 46, stats |-> stats]
          ELSE StatsLoop(items, i + 1,
                         DictSet(stats, stat_name.val, base_stat.val))

\* What a call of detalhes_busca leaves: the object, the exception that
\* propagates to the caller ("none": a normal return), whether a
\* RequestException was caught, the line that raised, and the number of
\* st.error reports.
Outcome(self, exc, caught, line) ==
  [self |-> self, exc |-> exc, caught |-> caught, line |-> line,
   errors |-> IF caught THEN 1 ELSE 0]

\* The mutant of SetAttr: the assignment of line 30 lands on nome.
SetAttrOverName(self, name, val) ==
  IF name = "id" THEN [self EXCEPT !.nome = val]
  ELSE [self EXCEPT ![name] = val]

\* self.<name> = val
SetAttr(self, name, val) == [self EXCEPT ![name] = val]

\* detalhes_busca from line 43 on.
Extract43(self, data) ==
    LET src == Get(data, "stats", EmptyList)
        it == IF src.exc # "none" THEN [exc |-> src.exc, items |-> <<>>]
              ELSE Iterate(src.val)
        loop == StatsLoop(it.items, 1, <<>>)
    IN IF it.exc # "none"
       THEN Outcome(SetAttr(self, "stats", <<>>), it.exc, FALSE, 44)
       ELSE Outcome(SetAttr(self, "stats", loop.stats), loop.exc,
                    FALSE, loop.line)

\* detalhes_busca from line 41 on.
Extract41(self, data) ==
    LET habilidades == NameList(data, "abilities", "ability")
    IN IF habilidades.exc # "none"
       THEN Outcome(self, habilidades.exc, FALSE, 41)
       ELSE Extract43(SetAttr(self, "habilidades", habilidades.val), data)

\* detalhes_busca from line 40 on.
Extract40(self, data) ==
    LET tipos == NameList(data, "types", "type")
    IN IF tipos.exc # "none" THEN Outcome(self, tipos.exc, FALSE, 40)
       ELSE Extract41(SetAttr(self, "tipos", tipos.val), data)

\* detalhes_busca from line 34 on.
Extract34(self, data) ==
    LET imagem == ImagemUrl(data)
    IN IF imagem.exc # "none"
       THEN Outcome(self, imagem.exc, FALSE, imagem.line)
       ELSE Extract40(SetAttr(self, "imagem_url", imagem.val), data)

\* detalhes_busca from line 32 on.
Extract32(self, data) ==
    LET weight == Get(data, "weight", JInt(0))
        peso == IF weight.exc # "none" THEN weight
                ELSE TrueDiv10(weight.val)
    IN IF peso.exc # "none" THEN Outcome(self, peso.exc, FALSE, 32)
       ELSE Extract34(SetAttr(self, "peso", peso.val), data)

\* detalhes_busca from line 31 on.
Extract31(self, data) ==
    LET height == Get(data, "height", JInt(0))
        altura == IF height.exc # "none" THEN height
                  ELSE TrueDiv10(height.val)
    IN IF altura.exc # "none" THEN Outcome(self, altura.exc, FALSE, 31)
       ELSE Extract32(SetAttr(self, "altura", altura.val), data)

\* detalhes_busca from line 30 on, data being response.json(): a line that
\* raises ends the method with the assignments made before it.
Extract30(self, data) ==
    LET id == Get(data, "id", Null)
    IN IF id.exc # "none" THEN Outcome(self, id.exc, FALSE, 30)
       ELSE Extract31(SetAttr(self, "id", id.val), data)

\* Pokemon.detalhes_busca, lines 24-50.  Only a RequestException is caught
\* (and reported with st.error); any other exception propagates.
detalhes_busca(self, resp) ==
  LET f == FetchJson(resp, 26)
  IN IF f.exc # "none" THEN Outcome(self, "none", TRUE, f.line)
     ELSE Extract30(self, f.data)

(***************************************************************************)
(* The catalog lister and its cache                                        *)
(***************************************************************************)
\* pegar_lista_pokemon's body, lines 55-64: data['results'] is outside
\* what the except clause catches.
pegar_lista_pokemon(resp) ==
  LET f == FetchJson(resp, 57)
      results == Subscript(f.data, "results")
  IN IF f.exc # "none"
     THEN [ret |-> EmptyList, exc |-> "none", caught |-> TRUE,
           line |-> f.line, errors |-> 1]
     ELSE IF results.exc # "none"
     THEN [ret |-> Null, exc |-> results.exc, caught |-> FALSE,
           line |-> 60, errors |-> 0]
     ELSE [ret |-> results.val, exc |-> "none", caught |-> FALSE,
           line |-> 0, errors |-> 0]

EmptyCache == [full |-> FALSE, value |-> Null, errors |-> 0]

\* @st.cache_data around pegar_lista_pokemon (no arguments: one entry), on
\* a hit: the stored value is returned and the stored st.error replayed.
CacheRead(cache) ==
  [ret |-> cache.value, exc |-> "none", caught |-> FALSE, line |-> 0,
   errors |-> cache.errors]

\* @st.cache_data on a miss, once the body has ended with r: what it
\* returned is stored; nothing is stored when it raised.
CacheWrite(cache, r) ==
  IF r.exc = "none"
  THEN [full |-> TRUE, value |-> r.ret, errors |-> r.errors]
  ELSE cache

(***************************************************************************)
(* The page script, lines 67-139.  g holds a run's globals, the page       *)
(* rendered so far and where the run is (pc): at the call of line 74, in   *)
(* requests.get of line 57 or of line 26, or ended ("idle").  An exception *)
(* that reaches the top of the script ends the run there: exc and line say *)
(* where.                                                                  *)
(***************************************************************************)
\* obj.name for an attribute the object may not have.
GetAttr(obj, name) ==
  IF name \in DOMAIN obj THEN Ok(obj[name]) ELSE Raised("AttributeError")

\* f"{x:03d}"
Format03d(x) ==
  IF x.t = "int" THEN "none"
  ELSE IF x.t = "str" THEN "ValueError" ELSE "TypeError"

\* st.progress(stat_valor / 255)
Progress(stat_valor) ==
  IF stat_valor.t # "int" THEN "TypeError"
  ELSE IF stat_valor.v < 0 \/ stat_valor.v > 255 THEN "StreamlitAPIException"
  ELSE "none"

\* The loop of lines 124-139 from item i on.
RECURSIVE RenderStats(_, _, _)
RenderStats(stats, i, rendered) ==
  IF i > Len(stats) THEN [exc |-> "none", line |-> 0, rendered |-> rendered]
  ELSE LET even == (i - 1) % 2 = 0
           text == Append(rendered, IF even THEN "stat_col1.text" ELSE "stat_col2.text")
           bar == Progress(stats[i].v)
       IN IF bar # "none"
          THEN [exc |-> bar, line |-> IF even THEN 131 ELSE 139, rendered |-> text]
          ELSE RenderStats(stats, i + 1,
                 Append(text, IF even THEN "stat_col1.progress" ELSE "stat_col2.progress"))

\* Lines 94-139: the entity's view.
RenderEntity(pokemon, rendered) ==
  LET image_url == GetAttr(pokemon, "image_url")
      name == GetAttr(pokemon, "name")
      cols == Append(rendered, "columns")
      col1 == IF Truthy(image_url.val) THEN Append(cols, "image") ELSE cols
      id == Format03d(pokemon.id)
      col2 == col1 \o <<"subheader", "tipo", "altura", "peso", "habilidades">>
  IN IF image_url.exc # "none"
     THEN [exc |-> image_url.exc, line |-> 99, rendered |-> cols]
     ELSE IF Truthy(image_url.val) /\ name.exc # "none"
     THEN [exc |-> name.exc, line |-> 101, rendered |-> cols]
     ELSE IF id # "none" THEN [exc |-> id, line |-> 106, rendered |-> col1]
     ELSE RenderStats(pokemon.stats, 1, col2 \o <<"status_base", "columns">>)


NotCalled == [called |-> FALSE, resp |-> ConnectionError, exc |-> "none",
              caught |-> FALSE, line |-> 0, errors |-> 0]

\* The run has ended: normally (exc = "none") or by an exception that
\* reached the top of the script at line.
Done(g, exc, line) == [g EXCEPT !.pc = "idle", !.exc = exc, !.line = line]

\* The number of options the selectbox of line 80 offers.
Options(lista) ==
  IF Truthy(lista) /\ lista.t = "list" THEN Len(lista.v) ELSE 0

\* The script from line 94 on.
Script94(g) ==
    LET view == RenderEntity(g.pokemon, g.rendered)
    IN Done([g EXCEPT !.rendered = view.rendered], view.exc, view.line)

\* Line 89 once detalhes_busca has ended with out on the response resp, and
\* the lines after it.
AfterBusca(g, resp, out) ==
    LET busca == [called |-> TRUE, resp |-> resp,
                  exc |-> out.exc, caught |-> out.caught,
                  line |-> out.line, errors |-> out.errors]
        shown == IF out.errors > 0 THEN Append(g.rendered, "error")
                 ELSE g.rendered
        after == [g EXCEPT !.pokemon = out.self, !.busca = busca,
                           !.rendered = shown]
    IN IF out.exc # "none" THEN Done(after, out.exc, 89)
       ELSE Script94(after)

\* Line 89: the script calls pokemon.detalhes_busca(), which sends the
\* request of line 26 and waits for its response.
Script89(g) == [g EXCEPT !.pc = "line26"]

\* The script from line 87 on.
Script87(g) ==
    LET name == Subscript(g.dados_pokemon, "name")
        url == Subscript(g.dados_pokemon, "url")
        new == Pokemon(name.val, url.val)
    IN IF name.exc # "none" THEN Done(g, name.exc, 87)
       ELSE IF url.exc # "none" THEN Done(g, url.exc, 87)
       ELSE IF new.exc # "none" THEN Done(g, new.exc, 87)
       ELSE Script89([g EXCEPT !.pokemon = new.self])

\* The script from line 80 on: choice is the option the user has picked in
\* the selectbox, nome_pokemon the labels of line 78.
Script80(g, choice, nome_pokemon) ==
    LET nome_selecionado == nome_pokemon[choice]
        selected_index ==
          CHOOSE i \in DOMAIN nome_pokemon :
            /\ nome_pokemon[i] = nome_selecionado
            /\ \A j \in 1..(i - 1) : nome_pokemon[j] # nome_selecionado
    IN Script87([g EXCEPT !.rendered = Append(g.rendered, "selectbox"),
                          !.dados_pokemon = g.lista_pokemon.v[selected_index]])

\* The script from line 78 on.
Script78(g, choice) ==
    LET it == Iterate(g.lista_pokemon)
        names == [i \in DOMAIN it.items |->
                    LET n == Subscript(it.items[i], "name")
                    IN IF n.exc # "none" THEN n ELSE TitleOf(n.val)]
        bad == {i \in DOMAIN names : names[i].exc # "none"}
    IN IF it.exc # "none" THEN Done(g, it.exc, 78)
       ELSE IF bad # {}
       THEN Done(g, names[CHOOSE i \in bad : \A j \in bad : i <= j].exc, 78)
       ELSE Script80(g, choice,
                     [i \in DOMAIN names |-> [n |-> i, nome |-> names[i].val]])

\* The script from line 77 on.
Script77(g, choice) ==
    IF Truthy(g.lista_pokemon) THEN Script78(g, choice)
    ELSE Done(g, "none", 0)

\* Line 74 once pegar_lista_pokemon() has ended with r, from its cache or
\* from its body, and the lines after it up to the request of line 26.
AfterLista(g, choice, r) ==
    LET shown == IF r.errors > 0 THEN Append(g.rendered, "error")
                 ELSE g.rendered
    IN IF r.exc # "none" THEN Done(g, r.exc, 74)
       ELSE Script77([g EXCEPT !.rendered = shown, !.lista_pokemon = r.ret],
                     choice)

\* Lines 67-71 of a new run: fresh globals, title and markdown on the page,
\* the call of line 74 next.
Script67 ==
  [pc |-> "line74", exc |-> "none", line |-> 0,
   rendered |-> <<"title", "markdown">>,
   lista_pokemon |-> Null, dados_pokemon |-> Null, pokemon |-> NoPokemon,
   busca |-> NotCalled]

(***************************************************************************)
(* What upstream may answer                                                *)
(***************************************************************************)
Without(obj, k) == JObj([x \in DOMAIN obj.v \ {k} |-> obj.v[x]])

With(obj, k, val) ==
  JObj([x \in DOMAIN obj.v \cup {k} |-> IF x = k THEN val ELSE obj.v[x]])

Text_mew == <<"m","e","w">>

Text_mr_mime == <<"m","r","-","m","i","m","e">>

Text_farfetchd == <<"f","a","r","f","e","t","c","h","'","d">>

Text_HO_oh == <<"H","O","-","o","h">>

Text_psychic == <<"p","s","y","c","h","i","c">>

Text_fairy == <<"f","a","i","r","y">>

Text_lightning_rod == <<"l","i","g","h","t","n","i","n","g","-","r","o","d">>

Text_static == <<"s","t","a","t","i","c">>

Text_hp == <<"h","p">>

Text_attack == <<"a","t","t","a","c","k">>

Text_special_attack == <<"s","p","e","c","i","a","l","-","a","t","t","a","c","k">>

Text_special_attack_spaced == ReplaceHyphen(Text_special_attack)

Text_url == <<"u","r","l">>

Text_png == <<"p","n","g">>

Entry(name) == JObj([name |-> JStr(name), url |-> JStr(Text_url)])

Listing(entries) == JObj([count |-> JInt(Len(entries)), results |-> JList(entries)])

ListResponses ==
  { ConnectionError, TextResponse(200), TextResponse(404),
    Response(500, Listing(<<Entry(Text_mew)>>)),
    Response(200, Listing(<<Entry(Text_mew), Entry(Text_mr_mime)>>)),
    Response(200, Listing(<<Entry(Text_farfetchd), Entry(Text_HO_oh)>>)),
    Response(200, Listing(<<>>)),
    Response(200, EmptyDict),
    Response(200, EmptyList),
    Response(200, Listing(<<Without(Entry(Text_mew), "name")>>)),
    Response(200, Listing(<<Without(Entry(Text_mew), "url")>>)) }

TypeSlot(name) == JObj([slot |-> JInt(1), type |-> JObj([name |-> JStr(name)])])

AbilitySlot(name) == JObj([ability |-> JObj([name |-> JStr(name)])])

Stat(name, base) == JObj([base_stat |-> JInt(base), stat |-> JObj([name |-> JStr(name)])])

Artwork(front) == JObj("official-artwork" :> JObj([front_default |-> front]))

Sprites(front) == JObj([other |-> Artwork(front)])

FullTypes == JList(<<TypeSlot(Text_psychic), TypeSlot(Text_fairy)>>)

FullAbilities == JList(<<AbilitySlot(Text_lightning_rod), AbilitySlot(Text_static)>>)

FullStats == JList(<<Stat(Text_hp, 40), Stat(Text_special_attack, 100)>>)

\* A payload with every key the extraction reads.
FullPayload ==
  JObj([id |-> JInt(122), height |-> JInt(13), weight |-> JInt(545),
        sprites |-> Sprites(JStr(Text_png)), types |-> FullTypes,
        abilities |-> FullAbilities, stats |-> FullStats])

TopKeys == {"id", "height", "weight", "sprites", "types", "abilities", "stats"}

\* Payloads with a key missing: a top-level key, a key on the way to the
\* image, a key of an element.
MissingKeyPayloads ==
  {Without(FullPayload, k) : k \in TopKeys} \cup
  { EmptyDict,
    With(FullPayload, "sprites", EmptyDict),
    With(FullPayload, "sprites", JObj([other |-> EmptyDict])),
    With(FullPayload, "sprites", JObj([other |-> JObj("official-artwork" :> EmptyDict)])),
    With(FullPayload, "types", JList(<<EmptyDict>>)),
    With(FullPayload, "abilities", JList(<<AbilitySlot(Text_static), EmptyDict>>)),
    With(FullPayload, "abilities", JList(<<JObj([ability |-> EmptyDict])>>)),
    With(FullPayload, "stats", JList(<<Stat(Text_hp, 40), Without(Stat(Text_attack, 50), "stat")>>)),
    With(FullPayload, "stats", JList(<<JObj([base_stat |-> JInt(50), stat |-> EmptyDict])>>)),
    With(FullPayload, "stats", JList(<<Stat(Text_hp, 40), Without(Stat(Text_attack, 50), "base_stat")>>)) }

\* Payloads with a null or a value of another shape where the extraction
\* reads.
MisshapenPayloads ==
  { Null, EmptyList,
    With(FullPayload, "height", Null),
    With(FullPayload, "sprites", Null),
    With(FullPayload, "sprites", Sprites(Null)),
    With(FullPayload, "types", Null),
    With(FullPayload, "types", JList(<<JStr(Text_fairy)>>)),
    With(FullPayload, "abilities", JList(<<AbilitySlot(Text_static), JObj([ability |-> JObj([name |-> Null])])>>)),
    With(FullPayload, "stats", JList(<<Stat(Text_hp, 300)>>)) }

\* A payload whose stats repeat a name.
RepeatedStatPayload ==
  With(FullPayload, "stats",
       JList(<<Stat(Text_hp, 40), Stat(Text_attack, 50), Stat(Text_hp, 60)>>))

\* A payload whose stats repeat a name once hyphens are spaces.
RepeatedSpacedStatPayload ==
  With(FullPayload, "stats",
       JList(<<Stat(Text_special_attack, 65), Stat(Text_hp, 40),
               Stat(Text_special_attack_spaced, 70)>>))

\* A payload whose second type lacks its name: the extraction raises at
\* line 40, after four assignments.
HalfPayload ==
  With(FullPayload, "types", JList(<<TypeSlot(Text_psychic), JObj([type |-> EmptyDict])>>))

DetailPayloads ==
  {FullPayload, HalfPayload, RepeatedStatPayload, RepeatedSpacedStatPayload}
    \cup MissingKeyPayloads \cup MisshapenPayloads

DetailResponses ==
  { ConnectionError, TextResponse(200), TextResponse(404),
    Response(500, FullPayload) } \cup
  {Response(200, body) : body \in DetailPayloads}

\* What upstream answers to the calls that follow an object's first.
RefetchResponses ==
  { ConnectionError, Response(500, FullPayload), Response(200, FullPayload),
    Response(200, HalfPayload), Response(200, EmptyDict),
    Response(200, RepeatedStatPayload) }


\* What upstream answers while two sessions are followed together.
FewListResponses ==
  { ConnectionError, TextResponse(200),
    Response(200, Listing(<<Entry(Text_mew), Entry(Text_mr_mime)>>)),
    Response(200, Listing(<<>>)),
    Response(200, EmptyDict),
    Response(200, EmptyList) }

FewDetailResponses ==
  { ConnectionError, Response(500, FullPayload), Response(200, FullPayload),
    Response(200, HalfPayload), Response(200, EmptyDict), Response(200, Null) }

FewRefetchResponses == { ConnectionError, Response(200, FullPayload) }

(***************************************************************************)
(* State.  Streamlit runs the page script of each browser session in a     *)
(* thread of its own; the threads of one process share the st.cache_data   *)
(* entry.  A run waits for upstream twice, in requests.get of line 57 and  *)
(* in requests.get of line 26, and threads interleave at those waits.      *)
(* st.cache_data computes a missing value under a lock of its own: one     *)
(* thread runs the body, the others wait at the call for the lock and then *)
(* read what was stored.                                                   *)
(***************************************************************************)
Sessions == {"s1", "s2"}

VARIABLES
  cache,           \* the st.cache_data entry of pegar_lista_pokemon
  lock,            \* the session computing that entry ("none": nobody)
  list_requests,   \* listing requests handed to the transport by this process
  pc,              \* where each session's thread is
  lister,          \* each session's call of pegar_lista_pokemon, once ended
  lista_pokemon,   \* each script's lista_pokemon (Null: not assigned)
  dados_pokemon,   \* each script's dados_pokemon (Null: not assigned)
  pokemon,         \* each script's pokemon object (NoPokemon: none)
  calls,           \* detalhes_busca calls that have ended on that object
  busca,           \* the last detalhes_busca call that ended, and its response
  script           \* each run's page so far and, once ended, how it ended

vars == <<cache, lock, list_requests, pc, lister, lista_pokemon,
          dados_pokemon, pokemon, calls, busca, script>>

\* Listing requests one process is followed for.
MaxRequests == 3

\* detalhes_busca calls one object is followed for.
MaxCalls == 2

\* The longest selectbox the listings above give.
MaxChoice == 2

NoLister == [called |-> FALSE, requested |-> FALSE,
             resp |-> ConnectionError, ret |-> Null, exc |-> "none",
             line |-> 0, errors |-> 0]

Init ==
  /\ cache = EmptyCache
  /\ lock = "none"
  /\ list_requests = 0
  /\ pc = [s \in Sessions |-> "idle"]
  /\ lister = [s \in Sessions |-> NoLister]
  /\ lista_pokemon = [s \in Sessions |-> Null]
  /\ dados_pokemon = [s \in Sessions |-> Null]
  /\ pokemon = [s \in Sessions |-> NoPokemon]
  /\ calls = [s \in Sessions |-> 0]
  /\ busca = [s \in Sessions |-> NotCalled]
  /\ script = [s \in Sessions |-> [exc |-> "none", line |-> 0, rendered |-> <<>>]]

\* The globals and the page of session s's run in progress.
Globals(s) ==
  [pc |-> pc[s], exc |-> script[s].exc, line |-> script[s].line,
   rendered |-> script[s].rendered,
   lista_pokemon |-> lista_pokemon[s], dados_pokemon |-> dados_pokemon[s],
   pokemon |-> pokemon[s], busca |-> busca[s]]

\* Session s's script has gone on to g.
Goes(s, g) ==
  /\ pc' = [pc EXCEPT ![s] = g.pc]
  /\ lista_pokemon' = [lista_pokemon EXCEPT ![s] = g.lista_pokemon]
  /\ dados_pokemon' = [dados_pokemon EXCEPT ![s] = g.dados_pokemon]
  /\ pokemon' = [pokemon EXCEPT ![s] = g.pokemon]
  /\ busca' = [busca EXCEPT ![s] = g.busca]
  /\ script' = [script EXCEPT ![s] =
                  [exc |-> g.exc, line |-> g.line, rendered |-> g.rendered]]

\* What session s's call of the lister was: whether it sent a request, the
\* response to it, and how it ended.
Listed(s, requested, resp, r) ==
  lister' = [lister EXCEPT ![s] =
               [called |-> TRUE, requested |-> requested, resp |-> resp,
                ret |-> r.ret, exc |-> r.exc, line |-> r.line,
                errors |-> r.errors]]

\* A session runs the page script anew, on its first load and after each
\* pick in the selectbox: lines 67-71, up to the call of line 74.
Start(s) ==
  /\ pc[s] = "idle"
  /\ Goes(s, Script67)
  /\ lister' = [lister EXCEPT ![s] = NoLister]
  /\ calls' = [calls EXCEPT ![s] = 0]
  /\ UNCHANGED <<cache, lock, list_requests>>

\* Line 74 with the listing stored: no request; the script goes on to the
\* end of the run or to the request of line 26.
ListaHit(s) ==
  /\ pc[s] = "line74"
  /\ cache.full
  /\ \E choice \in 1..MaxChoice :
       /\ choice = 1 \/ choice <= Options(cache.value)
       /\ \E g \in {AfterLista(Globals(s), choice, CacheRead(cache))} :
            Goes(s, g)
  /\ Listed(s, FALSE, ConnectionError, CacheRead(cache))
  /\ UNCHANGED <<cache, lock, list_requests, calls>>

\* Line 74 with nothing stored and nobody computing: the session takes the
\* lock, runs the body and sends the request of line 57.
ListaMiss(s) ==
  /\ pc[s] = "line74"
  /\ ~cache.full
  /\ lock = "none"
  /\ list_requests < MaxRequests
  /\ lock' = s
  /\ list_requests' = list_requests + 1
  /\ pc' = [pc EXCEPT ![s] = "line57"]
  /\ UNCHANGED <<cache, lister, lista_pokemon, dados_pokemon, pokemon, calls,
                 busca, script>>

\* The response to the request of line 57 arrives: the body ends, what it
\* returned is stored, the lock is released and the script goes on to the
\* end of the run or to the request of line 26.
ListaArrives(s, responses) ==
  /\ pc[s] = "line57"
  /\ \E resp \in responses, choice \in 1..MaxChoice :
       \E r \in {pegar_lista_pokemon(resp)} :
         /\ choice = 1 \/ choice <= Options(r.ret)
         /\ cache' = CacheWrite(cache, r)
         /\ Listed(s, TRUE, resp, r)
         /\ \E g \in {AfterLista(Globals(s), choice, r)} : Goes(s, g)
  /\ lock' = "none"
  /\ UNCHANGED <<list_requests, calls>>

\* The response to the request of line 26 arrives in the call of line 89:
\* detalhes_busca ends and the script goes on to the end of the run.
BuscaArrives(s, responses) ==
  /\ pc[s] = "line26"
  /\ \E resp \in responses :
       \E out \in {detalhes_busca(pokemon[s], resp)} :
         \E g \in {AfterBusca(Globals(s), resp, out)} : Goes(s, g)
  /\ calls' = [calls EXCEPT ![s] = 1]
  /\ UNCHANGED <<cache, lock, list_requests, lister>>

\* A caller of the class calls detalhes_busca again on the object the
\* session holds: the request of line 26 goes out.
Refetch(s) ==
  /\ pc[s] = "idle"
  /\ pokemon[s] # NoPokemon
  /\ calls[s] < MaxCalls
  /\ pc' = [pc EXCEPT ![s] = "again26"]
  /\ UNCHANGED <<cache, lock, list_requests, lister, lista_pokemon,
                 dados_pokemon, pokemon, calls, busca, script>>

\* The response to that request arrives: the call ends.
AgainArrives(s, responses) ==
  /\ pc[s] = "again26"
  /\ \E resp \in responses :
       \E out \in {detalhes_busca(pokemon[s], resp)} :
         /\ pokemon' = [pokemon EXCEPT ![s] = out.self]
         /\ busca' = [busca EXCEPT ![s] =
                        [called |-> TRUE, resp |-> resp, exc |-> out.exc,
                         caught |-> out.caught, line |-> out.line,
                         errors |-> out.errors]]
  /\ calls' = [calls EXCEPT ![s] = calls[s] + 1]
  /\ pc' = [pc EXCEPT ![s] = "idle"]
  /\ UNCHANGED <<cache, lock, list_requests, lister, lista_pokemon,
                 dados_pokemon, script>>

\* The process with its sessions.
Next ==
  \E s \in Sessions :
    \/ Start(s)
    \/ ListaHit(s)
    \/ ListaMiss(s)
    \/ ListaArrives(s, FewListResponses)
    \/ BuscaArrives(s, FewDetailResponses)
    \/ Refetch(s)
    \/ AgainArrives(s, FewRefetchResponses)

Spec == Init /\ [][Next]_vars

\* The process with one session, and every answer of upstream.
NextOneSession ==
  \E s \in {"s1"} :
    \/ Start(s)
    \/ ListaHit(s)
    \/ ListaMiss(s)
    \/ ListaArrives(s, ListResponses)
    \/ BuscaArrives(s, DetailResponses)
    \/ Refetch(s)
    \/ AgainArrives(s, RefetchResponses)

SpecOneSession == Init /\ [][NextOneSession]_vars

(***************************************************************************)
(* Properties                                                              *)
(***************************************************************************)
\* The seven detail fields of p hold what __init__ gave them.
InitialDetail(p) ==
  /\ p.id = Null /\ p.altura = Null /\ p.peso = Null /\ p.imagem_url = Null
  /\ p.tipos = <<>> /\ p.habilidades = <<>> /\ p.stats = <<>>

\* The request failed: no connection, a status raise_for_status rejects,
\* or a body that is no JSON.
RequestFailed(resp) ==
  ~resp.net \/ (resp.code >= 400 /\ resp.code < 600) \/ ~resp.json

\* The last detalhes_busca call that ended in session s is the one its
\* script made at line 89.
ScriptFetched(s) == busca[s].called /\ calls[s] = 1

\* Session s's page shows element.
Shows(s, element) ==
  \E i \in DOMAIN script[s].rendered : script[s].rendered[i] = element

\* C1: the detail resolver is total: whatever upstream answers, the call
\* of detalhes_busca returns normally, with nome and url populated, and no
\* exception propagates past it.
C1_ResolverTotal ==
  \A s \in Sessions :
    busca[s].called =>
      /\ busca[s].exc = "none"
      /\ pokemon[s] # NoPokemon
      /\ pokemon[s].nome.t = "str" /\ pokemon[s].url.t = "str"

\* The listing response is a failure: the request failed, or the body is
\* malformed (no JSON object with a results field).
ListingFailed(resp) ==
  RequestFailed(resp) \/ resp.body.t # "dict" \/ "results" \notin DOMAIN resp.body.v

\* C2: the catalog lister never propagates an error: on a network failure,
\* a non-success status or a malformed body (a JSON body without results
\* included) it returns the empty sequence and reports exactly one failure.
C2_ListerNeverRaises ==
  \A s \in Sessions :
    (lister[s].called /\ lister[s].requested /\ ListingFailed(lister[s].resp)) =>
      /\ lister[s].exc = "none"
      /\ lister[s].ret = EmptyList
      /\ lister[s].errors = 1

\* C3 as claimed: population is atomic: when detalhes_busca ends without a
\* fully successful extraction, all seven detail fields still hold their
\* initial values.
C3_Atomic ==
  \A s \in Sessions :
    (ScriptFetched(s) /\ (busca[s].caught \/ busca[s].exc # "none")) =>
      InitialDetail(pokemon[s])

\* The fields detalhes_busca assigns at line n or later hold in p what they
\* hold in q.
SameFrom(n, p, q) ==
  /\ n <= 30 => p.id = q.id
  /\ n <= 31 => p.altura = q.altura
  /\ n <= 32 => p.peso = q.peso
  /\ n <= 37 => p.imagem_url = q.imagem_url
  /\ n <= 40 => p.tipos = q.tipos
  /\ n <= 41 => p.habilidades = q.habilidades
  /\ n <= 42 => p.stats = q.stats

FreshPokemon == Pokemon(JStr(Text_mew), JStr(Text_url)).self

\* C3, amended: population is atomic only against a failed request.  A call
\* whose request fails (no connection, non-success status, body that is no
\* JSON) leaves all seven detail fields as they were before the call, their
\* initial values on an object's first call.  A call that raises part-way
\* through the extraction keeps the assignments made before the line that
\* raised, and leaves the fields assigned at that line or later as they were
\* (stats, emptied at line 43, keeps the entries inserted before a raise at
\* lines 44-47).
C3_AtomicOnlyForRequestFailure ==
  [][ \A s \in Sessions :
        (busca'[s].called /\ calls'[s] = calls[s] + 1) =>
          /\ calls[s] = 0 => InitialDetail(pokemon[s])
          /\ RequestFailed(busca'[s].resp) =>
               /\ busca'[s].caught /\ busca'[s].exc = "none"
               /\ SameFrom(30, pokemon'[s], pokemon[s])
          /\ busca'[s].exc # "none" =>
               SameFrom(busca'[s].line, pokemon'[s], pokemon[s]) ]_vars

\* A first call that raised part-way: four fields hold payload values, the
\* other three their initial values.
C3_Witness ==
  \E s \in Sessions :
    /\ ScriptFetched(s) /\ busca[s].exc = "KeyError" /\ busca[s].line = 40
    /\ pokemon[s].id = JInt(122) /\ pokemon[s].imagem_url = JStr(Text_png)
    /\ pokemon[s].tipos = <<>> /\ pokemon[s].habilidades = <<>>
    /\ pokemon[s].stats = <<>>

\* The field of the entity each top-level key of the payload feeds.
FieldOfKey ==
  [id |-> "id", height |-> "altura", weight |-> "peso",
   sprites |-> "imagem_url", types |-> "tipos",
   abilities |-> "habilidades", stats |-> "stats"]

\* The entity a fresh object becomes on the payload with every key.
FullEntity == detalhes_busca(FreshPokemon, Response(200, FullPayload)).self

\* C4: field extraction is independent per field: on a successfully fetched
\* payload with a key missing (top-level, on the way to the image, or of an
\* element) no error is raised or reported and every field whose key the
\* payload holds as the full payload does is extracted.
C4_IndependentExtraction ==
  \A s \in Sessions :
    (ScriptFetched(s) /\ busca[s].resp \in {Response(200, b) : b \in MissingKeyPayloads}) =>
      /\ busca[s].exc = "none"
      /\ busca[s].errors = 0
      /\ \A k \in TopKeys \cap DOMAIN busca[s].resp.body.v :
           busca[s].resp.body.v[k] = FullPayload.v[k] =>
             pokemon[s][FieldOfKey[k]] = FullEntity[FieldOfKey[k]]

\* The last call that ended in session s extracted every field from its
\* payload.
Extracted(s) == busca[s].called /\ busca[s].exc = "none" /\ ~busca[s].caught

\* The elements of the payload's stats, when it is a list.
StatItems(s) ==
  LET body == busca[s].resp.body
  IN IF body.t = "dict" /\ "stats" \in DOMAIN body.v /\ body.v["stats"].t = "list"
     THEN body.v["stats"].v ELSE <<>>

\* The normalized name of the i-th element of the payload's stats: hyphens
\* replaced by spaces, then title-cased.
StatName(s, i) ==
  JStr(Title(ReplaceHyphen(StatItems(s)[i].v["stat"].v["name"].v)))

\* The i-th smallest member of the set S of numbers.
Nth(S, i) == CHOOSE n \in S : Cardinality({m \in S : m <= n}) = i

FirstOccurrences(s) ==
  {i \in DOMAIN StatItems(s) :
     \A j \in 1..(i - 1) : StatName(s, j) # StatName(s, i)}

LastOccurrences(s) ==
  {i \in DOMAIN StatItems(s) :
     \A j \in (i + 1)..Len(StatItems(s)) : StatName(s, j) # StatName(s, i)}

RepeatsAName(s) == Extracted(s) /\ FirstOccurrences(s) # DOMAIN StatItems(s)

\* C5 as claimed: when two elements of stats have the same normalized name
\* the mapping holds one entry for it, with the later element's base_stat,
\* at the position of the last write.
C5_LastWritePosition ==
  \A s \in Sessions :
    RepeatsAName(s) =>
      /\ Len(pokemon[s].stats) = Cardinality(LastOccurrences(s))
      /\ \A p \in DOMAIN pokemon[s].stats :
           /\ pokemon[s].stats[p].k = StatName(s, Nth(LastOccurrences(s), p))
           /\ pokemon[s].stats[p].v =
                StatItems(s)[Nth(LastOccurrences(s), p)].v["base_stat"]

\* C5, amended: when two elements of stats have the same normalized name
\* the mapping holds one entry for it, with the later element's base_stat,
\* at the position of the name's first occurrence.
C5_FirstOccurrencePosition ==
  \A s \in Sessions :
    RepeatsAName(s) =>
      /\ Len(pokemon[s].stats) = Cardinality(FirstOccurrences(s))
      /\ \A p \in DOMAIN pokemon[s].stats :
           LET first == Nth(FirstOccurrences(s), p)
               last == CHOOSE i \in LastOccurrences(s) :
                         StatName(s, i) = StatName(s, first)
           IN /\ pokemon[s].stats[p].k = StatName(s, first)
              /\ pokemon[s].stats[p].v = StatItems(s)[last].v["base_stat"]

\* hp 40, attack 50, hp 60 has become Hp 60, Attack 50.
C5_Witness ==
  \E s \in Sessions :
    /\ Extracted(s) /\ busca[s].resp = Response(200, RepeatedStatPayload)
    /\ pokemon[s].stats = << [k |-> JStr(<<"H","p">>), v |-> JInt(60)],
                             [k |-> JStr(Title(Text_attack)), v |-> JInt(50)] >>

\* C6: after a failed detail request the script completes with a visible
\* error and the entity's degraded view; after a failed listing it
\* completes with a visible error and no selection list.
C6_DegradedView ==
  \A s \in Sessions :
    /\ (ScriptFetched(s) /\ busca[s].caught) =>
         /\ script[s].exc = "none"
         /\ Shows(s, "error") /\ Shows(s, "subheader")
    /\ (lister[s].called /\ lister[s].errors > 0 /\ lister[s].exc = "none") =>
         /\ script[s].exc = "none"
         /\ Shows(s, "error") /\ ~Shows(s, "selectbox")

\* out is raw with the first letter of each white-space-separated word
\* upper-cased and its other letters lower-cased.
WordsCapitalized(raw, out) ==
  /\ Len(out) = Len(raw)
  /\ \A i \in DOMAIN raw :
       out[i] = IF i = 1 \/ raw[i - 1] = " " THEN ToUpper(raw[i])
                ELSE ToLower(raw[i])

\* out is raw with each letter that no letter precedes upper-cased and
\* every other letter lower-cased.
LetterRunsCapitalized(raw, out) ==
  /\ Len(out) = Len(raw)
  /\ \A i \in DOMAIN raw :
       out[i] = IF i = 1 \/ ~IsCased(raw[i - 1]) THEN ToUpper(raw[i])
                ELSE ToLower(raw[i])

\* The names of the payload's list under key, each under inner.
RawNames(s, key, inner) ==
  LET body == busca[s].resp.body
  IN IF body.t = "dict" /\ key \in DOMAIN body.v
     THEN [i \in DOMAIN body.v[key].v |-> body.v[key].v[i].v[inner].v["name"].v]
     ELSE <<>>

\* C7 as claimed: title-casing capitalizes the first letter of each
\* white-space-separated word and only those: a letter after a hyphen or an
\* apostrophe is not capitalized.
C7_WordsOnly ==
  \A s \in Sessions :
    /\ pokemon[s] # NoPokemon =>
         WordsCapitalized(dados_pokemon[s].v["name"].v, pokemon[s].nome.v)
    /\ Extracted(s) =>
         /\ \A i \in DOMAIN pokemon[s].tipos :
              WordsCapitalized(RawNames(s, "types", "type")[i],
                               pokemon[s].tipos[i].v)
         /\ \A i \in DOMAIN pokemon[s].habilidades :
              WordsCapitalized(RawNames(s, "abilities", "ability")[i],
                               pokemon[s].habilidades[i].v)

\* C7, amended: title-casing is str.title(): it upper-cases every letter
\* that no letter precedes (the first of the string, and one after a space,
\* a hyphen, an apostrophe or any other non-letter) and lower-cases every
\* other letter; so mr-mime becomes Mr-Mime and lightning-rod Lightning-Rod.
\* A metric name has its hyphens replaced by spaces first.
C7_LetterRuns ==
  \A s \in Sessions :
    /\ pokemon[s] # NoPokemon =>
         LetterRunsCapitalized(dados_pokemon[s].v["name"].v, pokemon[s].nome.v)
    /\ Extracted(s) =>
         /\ \A i \in DOMAIN pokemon[s].tipos :
              LetterRunsCapitalized(RawNames(s, "types", "type")[i],
                                    pokemon[s].tipos[i].v)
         /\ \A i \in DOMAIN pokemon[s].habilidades :
              LetterRunsCapitalized(RawNames(s, "abilities", "ability")[i],
                                    pokemon[s].habilidades[i].v)
         /\ \A i \in FirstOccurrences(s) :
              \E p \in DOMAIN pokemon[s].stats :
                LetterRunsCapitalized(
                  ReplaceHyphen(StatItems(s)[i].v["stat"].v["name"].v),
                  pokemon[s].stats[p].k.v)

\* mr-mime has been constructed and lightning-rod extracted.
C7_Witness ==
  \E s \in Sessions :
    /\ Extracted(s)
    /\ dados_pokemon[s] = Entry(Text_mr_mime)
    /\ pokemon[s].nome = JStr(<<"M","r","-","M","i","m","e">>)
    /\ Len(pokemon[s].habilidades) = 2
    /\ pokemon[s].habilidades[1] =
         JStr(<<"L","i","g","h","t","n","i","n","g","-","R","o","d">>)

\* C8: nome and url are set once by the constructor and keep that value
\* through every later operation: however many detalhes_busca calls succeed,
\* fail or abort, the object holds the nome and url its constructor computed
\* from the catalog entry.
C8_NameAndUrlKept ==
  \A s \in Sessions :
    pokemon[s] # NoPokemon =>
      /\ pokemon[s].nome = JStr(Title(dados_pokemon[s].v["name"].v))
      /\ pokemon[s].url = dados_pokemon[s].v["url"]

\* A second call on the same object has aborted part-way after a first
\* that populated it.
C8_Witness ==
  \E s \in Sessions :
    /\ calls[s] = 2 /\ busca[s].exc = "KeyError"
    /\ pokemon[s].habilidades # <<>>
    /\ pokemon[s].nome = JStr(<<"H","o","-","O","h">>)

\* C9: every attribute the script reads from the object is one the class
\* defines, so with a listing and a fully successful detail fetch the script
\* renders the image, the header, the fields and the stat bars and ends
\* without raising.
C9_RendersToCompletion ==
  \A s \in Sessions :
    (ScriptFetched(s) /\ busca[s].resp = Response(200, FullPayload)) =>
      /\ script[s].exc = "none"
      /\ Shows(s, "image") /\ Shows(s, "subheader")
      /\ Shows(s, "stat_col1.progress")

\* C10: the memoized lister sends at most one listing request per process,
\* whatever the number of sessions and of runs.
C10_AtMostOneListingRequest == list_requests <= 1

====
